---- MODULE Spec2Model ----
(***************************************************************************)
(* A model of the ATS backend (src/backend): the in-memory session cache   *)
(* (services/session_cache.py), the analysis and reconstruction request    *)
(* handlers (routers/analysis.py, routers/reconstruction.py) with the      *)
(* background cache-warming pool, and the AI gateway's retry loops          *)
(* (services/ai_providers.py).                                             *)
(*                                                                         *)
(* Threads: the event-loop thread runs the async request handlers, one at  *)
(* a time (the handlers have no await after reading the upload); the pool  *)
(* threads of _cache_executor run _cache_parsed_resume. The cache dict is  *)
(* shared by all of them without a lock, so every access to it is a step   *)
(* of its own.                                                             *)
(***************************************************************************)
EXTENDS Naturals, Integers, Sequences, FiniteSets, TLC

(***************************************************************************)
(* Program constants and model bounds                                      *)
(***************************************************************************)
CACHE_TTL == 30 * 60

\* the clock advances in steps of TickLen seconds, up to MaxTime
TickLen == 1800
MaxTime == 3600
\* tasks waiting in the executor's queue
MaxQueue == 1

Loop == "loop"
Workers == {"w1", "w2"}

None == [py |-> "None"]
NoReq == [kind |-> "none"]
NoTask == [none |-> TRUE]
\* the outcome of a call that raises
Raise == [raised |-> TRUE]

(***************************************************************************)
(* Inputs                                                                  *)
(***************************************************************************)
\* the uploads: file bytes and the extension of the file name
Files == {"cvA", "cvB", "blank", "corrupt"}
JobDescriptions == {"jd1"}

\* hashlib.md5(...).hexdigest(), as a symbolic digest: equal inputs give
\* equal digests and the digests of the model's inputs do not collide
md5(x) == "md5(" \o x \o ")"

_generate_file_hash(file_bytes) == md5(file_bytes)

generate_session_id(file_bytes, job_description) ==
    md5(_generate_file_hash(file_bytes) \o md5(job_description))

\* the ids under which the model's analyses store a session
StoredIds == { generate_session_id(f, jd) : f \in {"cvA", "cvB"}, jd \in JobDescriptions }
idA == generate_session_id("cvA", "jd1")
idB == generate_session_id("cvB", "jd1")

\* the forms posted to the analysis endpoint
AnalysisForms ==
    { [file |-> "cvA", ftype |-> "pdf", jd |-> "jd1", pos |-> "dev"],
      [file |-> "cvB", ftype |-> "docx", jd |-> "jd1", pos |-> "ops"],
      [file |-> "blank", ftype |-> "pdf", jd |-> "jd1", pos |-> "dev"],
      [file |-> "corrupt", ftype |-> "docx", jd |-> "jd1", pos |-> "dev"],
      [file |-> "cvA", ftype |-> "txt", jd |-> "jd1", pos |-> "dev"] }

\* the forms posted to the reconstruction endpoints: the session id is
\* absent, the one of the upload, or the one of another upload (and of
\* another job description)
ReconstructionForms ==
    { [kind |-> "docx", file |-> "cvA", ftype |-> "pdf", jd |-> "jd1", pos |-> "ops", sid |-> idA],
      [kind |-> "docx", file |-> "cvB", ftype |-> "docx", jd |-> "jd1", pos |-> "ops", sid |-> ""],
      [kind |-> "preview", file |-> "cvA", ftype |-> "pdf", jd |-> "jd1", pos |-> "dev", sid |-> idB],
      [kind |-> "preview", file |-> "blank", ftype |-> "pdf", jd |-> "jd2", pos |-> "dev", sid |-> idA],
      [kind |-> "pdf", file |-> "cvB", ftype |-> "docx", jd |-> "jd1", pos |-> "ops", sid |-> idB],
      [kind |-> "pdf", file |-> "corrupt", ftype |-> "docx", jd |-> "jd1", pos |-> "dev", sid |-> idA],
      [kind |-> "pdf", file |-> "cvA", ftype |-> "txt", jd |-> "jd1", pos |-> "dev", sid |-> ""] }

\* cv_processor.extract_text: the text of the upload, or an error
extract_text(file_bytes, file_type) ==
    IF file_type \notin {"pdf", "docx"} THEN [err |-> "Unsupported file type"]
    ELSE IF file_bytes = "corrupt" THEN [err |-> "Error reading file"]
    ELSE IF file_bytes = "blank" THEN [text |-> " "]
    ELSE [text |-> "text of " \o file_bytes]

\* str.strip() on the texts of the model
strip(s) == IF s = " " THEN "" ELSE s

\* the strings the validation searches are sequences of characters
NameIn(cv_text) ==
    IF cv_text = "text of cvA" THEN <<"A", "d", "a">> ELSE <<"D", "a", "d">>
EmailIn(cv_text) ==
    IF cv_text = "text of cvA" THEN <<"a", "@", "x">> ELSE <<"d", "@", "x">>

\* what parse_resume can return for a text: the model's answer is not
\* deterministic; the call can also raise (gateway error, malformed JSON).
\* cv_text stands for the other fields, which hold what the text says
ParsedResumes(cv_text) ==
    { [name |-> NameIn(cv_text), email |-> EmailIn(cv_text),
       skills |-> <<"Python", "SQL">>, experience |-> <<>>, cv_text |-> cv_text] }

(***************************************************************************)
(* State                                                                   *)
(***************************************************************************)
VARIABLES
    cache,      \* session_cache._cache: a dict from session id to CachedSession
    now,        \* time.time()
    req,        \* the request the event loop is handling, or NoReq
    lp,         \* the frame of the event-loop thread: the handler and get_session
    wk,         \* the frames of the pool threads running _cache_parsed_resume
    queue,      \* the work queue of _cache_executor
    bg,         \* history: the state of the task the current analysis submitted
    lastStore,  \* history: when store_session last wrote each id
    issued,     \* history: the session ids that analysis responses have returned
    gw,         \* the frame of a call of the AI gateway, get_ai_response
    st          \* the frame of a call of a stage: parser, gap analyzer, reconstructor

vars == <<cache, now, req, lp, wk, queue, bg, lastStore, issued, gw, st>>
apiVars == <<cache, now, req, lp, wk, queue, bg, lastStore, issued>>

EmptyDict == [k \in {} |-> None]

\* dict.get(k)
dict_get(d, k) == IF k \in DOMAIN d THEN d[k] ELSE None
\* d[k] = v
dict_set(d, k, v) == [x \in (DOMAIN d) \cup {k} |-> IF x = k THEN v ELSE d[x]]
\* del d[k], for a key that is there
dict_del(d, k) == [x \in (DOMAIN d) \ {k} |-> d[x]]

\* the dataclass CachedSession
CachedSession(cv_text, parsed_resume, file_hash, created_at, job_description, job_position) ==
    [cv_text |-> cv_text, parsed_resume |-> parsed_resume, file_hash |-> file_hash,
     created_at |-> created_at, job_description |-> job_description,
     job_position |-> job_position]

\* the expiry test with the age measured against twice the lifetime
is_expired_late(t, session) == t - session.created_at > 2 * CACHE_TTL

\* the expiry test of get_session and _cleanup_expired
is_expired(t, session) == t - session.created_at > CACHE_TTL

\* the frame of the event-loop thread. lookups, parse_called, ai_calls and
\* pipeline are history: the get_session calls of the request with their
\* results, whether parse_resume was called, the number of model calls of
\* the handler, and the functions it called for the gaps and the text.
\* validation is the local of that name of the reconstruction handlers, and
\* evicted is history: the ids get_session has deleted for the request
IdleLoop ==
    [pc |-> "idle", stage |-> "-", g_id |-> "", g_session |-> None, g_ret |-> None,
     cached |-> None, parsed |-> None, result |-> None, session_id |-> "",
     lookups |-> <<>>, parse_called |-> FALSE, ai_calls |-> 0, pipeline |-> <<>>,
     validation |-> None, evicted |-> <<>>, resp |-> [status |-> 0]]

IdleWorker ==
    [pc |-> "idle", task |-> NoTask, parsed |-> None, session_id |-> "",
     c_now |-> 0, size0 |-> 0, visited |-> {}, expired |-> <<>>]

\* the frame of the gateway. calls, failures and sleeps are history: the
\* provider calls made, the failures of the attempts in order, and the
\* time.sleep calls with the attempt they follow
IdleGateway ==
    [pc |-> "idle", provider |-> "", fn |-> "", model |-> "", max_retries |-> 0, attempt |-> 0,
     calls |-> 0, failures |-> <<>>, sleeps |-> <<>>, result |-> None]

\* the frame of a stage. calls is history: the calls of get_ai_response.
\* original is the ParsedResume given to the validation
IdleStage ==
    [pc |-> "idle", stage |-> "", original |-> None, response |-> <<>>, calls |-> 0,
     result |-> None]

Init ==
    /\ cache = EmptyDict
    /\ now = 0
    /\ req = NoReq
    /\ lp = IdleLoop
    /\ wk = [w \in Workers |-> IdleWorker]
    /\ queue = <<>>
    /\ bg = "none"
    /\ lastStore = [i \in StoredIds |-> -1]
    /\ issued = {}
    /\ gw = IdleGateway
    /\ st = IdleStage

\* time passes
Tick ==
    /\ now + TickLen <= MaxTime
    /\ now' = now + TickLen
    /\ UNCHANGED <<cache, req, lp, wk, queue, bg, lastStore, issued, gw, st>>

(***************************************************************************)
(* The pool threads: _cache_parsed_resume, store_session, _cleanup_expired *)
(***************************************************************************)
Frame(w) == wk[w]

\* the error of the task is raised again instead of being printed
on_background_error_raises(e) == "raised " \o e

\* how a run of _cache_parsed_resume ends when parse_resume or store_session
\* raises: the except clause prints the error and the function returns
on_background_error(e) == "logged " \o e

\* the task function returns: the thread is free, and the history of the
\* current analysis' task is kept
task_ends(w, how) ==
    /\ wk' = [wk EXCEPT ![w] = IdleWorker]
    /\ bg' = IF Frame(w).task.cur THEN how ELSE bg

\* the task deriving its id from the job position as well
cache_parsed_resume_begin_keyed_by_position(w) ==
    /\ Frame(w).pc = "idle"
    /\ queue # <<>>
    /\ queue' = Tail(queue)
    /\ LET task == Head(queue)
       IN \E outcome \in {Raise} \cup ParsedResumes(task.cv_text) :
            IF outcome = Raise
            THEN /\ wk' = wk
                 /\ bg' = IF task.cur THEN on_background_error("parse_resume") ELSE bg
            ELSE /\ wk' = [wk EXCEPT ![w] =
                             [IdleWorker EXCEPT
                                 !.pc = "store", !.task = task, !.parsed = outcome,
                                 !.session_id = generate_session_id(
                                      task.file_bytes, task.job_description \o task.job_position)]]
                 /\ bg' = IF task.cur THEN "running" ELSE bg
    /\ UNCHANGED <<cache, now, req, lp, lastStore, issued, gw, st>>

\* a pool thread takes the oldest task of the queue and runs
\* _cache_parsed_resume up to the call of store_session: parse_resume returns
\* a ParsedResume or raises, then the session id is computed
cache_parsed_resume_begin(w) ==
    /\ Frame(w).pc = "idle"
    /\ queue # <<>>
    /\ queue' = Tail(queue)
    /\ LET task == Head(queue)
       IN \E outcome \in {Raise} \cup ParsedResumes(task.cv_text) :
            IF outcome = Raise
            THEN /\ wk' = wk
                 /\ bg' = IF task.cur THEN on_background_error("parse_resume") ELSE bg
            ELSE /\ wk' = [wk EXCEPT ![w] =
                             [IdleWorker EXCEPT
                                 !.pc = "store", !.task = task, !.parsed = outcome,
                                 !.session_id = generate_session_id(
                                      task.file_bytes, task.job_description)]]
                 /\ bg' = IF task.cur THEN "running" ELSE bg
    /\ UNCHANGED <<cache, now, req, lp, lastStore, issued, gw, st>>

\* the entry with the job description and the job position exchanged
store_session_entry_swapped(f, t) ==
    CachedSession(f.task.cv_text, f.parsed, _generate_file_hash(f.task.file_bytes),
                  t, f.task.job_position, f.task.job_description)

\* the CachedSession that store_session builds at time t
store_session_entry(f, t) ==
    CachedSession(f.task.cv_text, f.parsed, _generate_file_hash(f.task.file_bytes),
                  t, f.task.job_description, f.task.job_position)

\* store_session, the assignment _cache[session_id] = CachedSession(...)
store_session_write(w) ==
    /\ Frame(w).pc = "store"
    /\ cache' = dict_set(cache, Frame(w).session_id, store_session_entry(Frame(w), now))
    /\ lastStore' = [lastStore EXCEPT ![Frame(w).session_id] = now]
    /\ wk' = [wk EXCEPT ![w].pc = "sweep"]
    /\ UNCHANGED <<now, req, lp, queue, bg, issued, gw, st>>

\* _cleanup_expired: now = time.time(), and the iterator over _cache.items()
\* is created; it remembers the size of the dict
cleanup_expired_begin(w) ==
    /\ Frame(w).pc = "sweep"
    /\ wk' = [wk EXCEPT ![w] = [@ EXCEPT !.pc = "iter", !.c_now = now,
                                         !.size0 = Cardinality(DOMAIN cache),
                                         !.visited = {}, !.expired = <<>>]]
    /\ UNCHANGED <<cache, now, req, lp, queue, bg, lastStore, issued, gw, st>>

\* one step of the list comprehension over _cache.items(). The dict iterator
\* raises RuntimeError when the dict's size is not the one it started with,
\* or when it meets an item after yielding that many. The iterator is
\* followed by the keys it has yielded: the order of the items is left open,
\* and a key deleted and stored again during the iteration counts as yielded
cleanup_expired_next(w) ==
    /\ Frame(w).pc = "iter"
    /\ LET f == Frame(w)
           rest == (DOMAIN cache) \ f.visited
       IN IF Cardinality(DOMAIN cache) # f.size0
          THEN task_ends(w, on_background_error("RuntimeError"))
          ELSE IF rest = {}
          THEN wk' = [wk EXCEPT ![w].pc = "del"] /\ bg' = bg
          ELSE IF Cardinality(f.visited) >= f.size0
          THEN task_ends(w, on_background_error("RuntimeError"))
          ELSE /\ \E k \in rest :
                    wk' = [wk EXCEPT ![w] =
                             [f EXCEPT !.visited = @ \cup {k},
                                       !.expired = IF is_expired(f.c_now, cache[k])
                                                   THEN Append(@, k) ELSE @]]
               /\ bg' = bg
    /\ UNCHANGED <<cache, now, req, lp, queue, lastStore, issued, gw, st>>

\* for k in expired: del _cache[k]; a key that is gone raises KeyError.
\* With the list exhausted store_session returns, and _cache_parsed_resume
\* prints "Session stored" and returns
cleanup_expired_del(w) ==
    /\ Frame(w).pc = "del"
    /\ LET f == Frame(w)
       IN IF f.expired = <<>>
          THEN /\ task_ends(w, "stored")
               /\ cache' = cache
          ELSE IF Head(f.expired) \in DOMAIN cache
          THEN /\ cache' = dict_del(cache, Head(f.expired))
               /\ wk' = [wk EXCEPT ![w].expired = Tail(@)]
               /\ bg' = bg
          ELSE /\ task_ends(w, on_background_error("KeyError"))
               /\ cache' = cache
    /\ UNCHANGED <<now, req, lp, queue, lastStore, issued, gw, st>>

WorkerStep(w) ==
    \/ cache_parsed_resume_begin(w)
    \/ store_session_write(w)
    \/ cleanup_expired_begin(w)
    \/ cleanup_expired_next(w)
    \/ cleanup_expired_del(w)

(***************************************************************************)
(* The event-loop thread: the request handlers and get_session             *)
(***************************************************************************)
\* raise HTTPException(status_code, detail): the handler's response
HTTPException(status_code, detail) == [status |-> status_code, detail |-> detail]

\* the handler ends with this response
Respond(f, r) == [f EXCEPT !.pc = "respond", !.resp = r]

\* the task analyze_cv submits to _cache_executor
CacheTask(cv_text, r) ==
    [cv_text |-> cv_text, file_bytes |-> r.file, job_description |-> r.jd,
     job_position |-> r.pos, cur |-> TRUE]

\* the dict parse_json_response gives for a well-formed answer of the model
AnalysisOf(cv_text, r) == [analysis |-> <<cv_text, r.jd, r.pos>>]

\* analyze_cv testing for an empty text only after the model call
analyze_cv_begin_checks_late(form) ==
    /\ lp.pc = "idle"
    /\ LET r == [kind |-> "analyze", file |-> form.file, ftype |-> form.ftype,
                 jd |-> form.jd, pos |-> form.pos, sid |-> ""]
           x == extract_text(r.file, r.ftype)
       IN /\ req' = r
          /\ IF r.ftype \notin {"pdf", "docx"}
             THEN /\ lp' = Respond(lp, HTTPException(400, "Unsupported file type. Use PDF or DOCX."))
                  /\ UNCHANGED <<queue, bg>>
             ELSE IF "err" \in DOMAIN x
             THEN /\ lp' = Respond(lp, HTTPException(500, x.err))
                  /\ UNCHANGED <<queue, bg>>
             ELSE IF strip(x.text) = ""
             THEN /\ lp' = Respond([lp EXCEPT !.ai_calls = 1],
                                   HTTPException(400, "Could not extract text from file."))
                  /\ UNCHANGED <<queue, bg>>
             ELSE \E answer \in {"raise", "malformed", "json"} :
                    IF answer = "raise"
                    THEN /\ lp' = Respond([lp EXCEPT !.ai_calls = 1],
                                          HTTPException(500, "provider error"))
                         /\ UNCHANGED <<queue, bg>>
                    ELSE IF answer = "malformed"
                    THEN /\ lp' = Respond([lp EXCEPT !.ai_calls = 1],
                                          HTTPException(500, "Failed to parse AI response."))
                         /\ UNCHANGED <<queue, bg>>
                    ELSE /\ Len(queue) < MaxQueue
                         /\ queue' = Append(queue, CacheTask(x.text, r))
                         /\ bg' = "queued"
                         /\ lp' = [lp EXCEPT !.pc = "an_return", !.ai_calls = 1,
                                             !.result = AnalysisOf(x.text, r),
                                             !.session_id = generate_session_id(r.file, r.jd)]
    /\ UNCHANGED <<cache, now, wk, lastStore, issued, gw, st>>

\* analyze_cv from the upload to the submit of the background task: the
\* type check, the text extraction, the model call and parse_json_response
analyze_cv_begin(form) ==
    /\ lp.pc = "idle"
    /\ LET r == [kind |-> "analyze", file |-> form.file, ftype |-> form.ftype,
                 jd |-> form.jd, pos |-> form.pos, sid |-> ""]
           x == extract_text(r.file, r.ftype)
       IN /\ req' = r
          /\ IF r.ftype \notin {"pdf", "docx"}
             THEN /\ lp' = Respond(lp, HTTPException(400, "Unsupported file type. Use PDF or DOCX."))
                  /\ UNCHANGED <<queue, bg>>
             ELSE IF "err" \in DOMAIN x
             THEN /\ lp' = Respond(lp, HTTPException(500, x.err))
                  /\ UNCHANGED <<queue, bg>>
             ELSE IF strip(x.text) = ""
             THEN /\ lp' = Respond(lp, HTTPException(400, "Could not extract text from file."))
                  /\ UNCHANGED <<queue, bg>>
             ELSE \E answer \in {"raise", "malformed", "json"} :
                    IF answer = "raise"
                    THEN /\ lp' = Respond([lp EXCEPT !.ai_calls = 1],
                                          HTTPException(500, "provider error"))
                         /\ UNCHANGED <<queue, bg>>
                    ELSE IF answer = "malformed"
                    THEN /\ lp' = Respond([lp EXCEPT !.ai_calls = 1],
                                          HTTPException(500, "Failed to parse AI response."))
                         /\ UNCHANGED <<queue, bg>>
                    ELSE /\ Len(queue) < MaxQueue
                         /\ queue' = Append(queue, CacheTask(x.text, r))
                         /\ bg' = "queued"
                         /\ lp' = [lp EXCEPT !.pc = "an_return", !.ai_calls = 1,
                                             !.result = AnalysisOf(x.text, r),
                                             !.session_id = generate_session_id(r.file, r.jd)]
    /\ UNCHANGED <<cache, now, wk, lastStore, issued, gw, st>>

\* the response of a successful analysis
analyze_cv_response(r, result, session_id) ==
    [status |-> 200, success |-> TRUE,
     analysis |-> [analysis |-> result.analysis, filename |-> r.file, file_type |-> r.ftype],
     session_id |-> session_id]

\* analyze_cv waiting for the result of the task it submitted
analyze_cv_return_waits ==
    /\ lp.pc = "an_return"
    /\ bg \notin {"queued", "running"}
    /\ lp' = Respond(lp, analyze_cv_response(req, lp.result, lp.session_id))
    /\ UNCHANGED <<cache, now, req, wk, queue, bg, lastStore, issued, gw, st>>

\* analyze_cv after the submit: the file info is added and the response
\* returned; nothing of the task is read or awaited
analyze_cv_return ==
    /\ lp.pc = "an_return"
    /\ lp' = Respond(lp, analyze_cv_response(req, lp.result, lp.session_id))
    /\ UNCHANGED <<cache, now, req, wk, queue, bg, lastStore, issued, gw, st>>

\* the frame when get_session(session_id) is called
call_get_session(f, stage, session_id) ==
    [f EXCEPT !.pc = "g_get", !.stage = stage, !.g_id = session_id]

\* a get_session that gives a session only to the upload it was stored for
get_session_returns_checked(f, value) ==
    LET own == IF "file_hash" \in DOMAIN value /\ value.file_hash # _generate_file_hash(req.file)
               THEN None ELSE value
    IN [f EXCEPT !.pc = "got", !.g_ret = own,
                 !.lookups = Append(@, [stage |-> f.stage, id |-> f.g_id, ret |-> own])]

\* the frame when get_session returns value
get_session_returns(f, value) ==
    [f EXCEPT !.pc = "got", !.g_ret = value,
              !.lookups = Append(@, [stage |-> f.stage, id |-> f.g_id, ret |-> value])]

\* a reconstruction handler (reconstruct_cv, preview_reconstruction,
\* generate_pdf_resume) from the upload to the first cache lookup
reconstruct_begin(form) ==
    /\ lp.pc = "idle"
    /\ req' = form
    /\ lp' = IF form.ftype \notin {"pdf", "docx"}
             THEN Respond(lp, HTTPException(400, "Unsupported file type. Use PDF or DOCX."))
             ELSE IF form.sid # ""
             THEN call_get_session(lp, "sid", form.sid)
             ELSE call_get_session(lp, "auto", generate_session_id(form.file, form.jd))
    /\ UNCHANGED <<cache, now, wk, queue, bg, lastStore, issued, gw, st>>

\* get_session: session = _cache.get(session_id); None is returned at once
get_session_get ==
    /\ lp.pc = "g_get"
    /\ LET session == dict_get(cache, lp.g_id)
       IN lp' = IF session = None
                THEN get_session_returns(lp, None)
                ELSE [lp EXCEPT !.pc = "g_check", !.g_session = session]
    /\ UNCHANGED <<cache, now, req, wk, queue, bg, lastStore, issued, gw, st>>

\* get_session without the removal: an expired session gives None and stays
get_session_check_keeps ==
    /\ lp.pc = "g_check"
    /\ lp' = IF is_expired(now, lp.g_session)
             THEN get_session_returns(lp, None)
             ELSE get_session_returns(lp, lp.g_session)
    /\ UNCHANGED <<cache, now, req, wk, queue, bg, lastStore, issued, gw, st>>

\* get_session: the TTL test; a live session is returned
get_session_check ==
    /\ lp.pc = "g_check"
    /\ lp' = IF is_expired(now, lp.g_session)
             THEN [lp EXCEPT !.pc = "g_del"]
             ELSE get_session_returns(lp, lp.g_session)
    /\ UNCHANGED <<cache, now, req, wk, queue, bg, lastStore, issued, gw, st>>

\* get_session: del _cache[session_id] and return None; a key that is gone
\* raises KeyError, which the handler's "except Exception" turns into a 500
get_session_del ==
    /\ lp.pc = "g_del"
    /\ IF lp.g_id \in DOMAIN cache
       THEN /\ cache' = dict_del(cache, lp.g_id)
            /\ lp' = get_session_returns([lp EXCEPT !.evicted = Append(@, lp.g_id)], None)
       ELSE /\ cache' = cache
            /\ lp' = Respond(get_session_returns(lp, [raised |-> "KeyError"]),
                             HTTPException(500, "KeyError"))
    /\ UNCHANGED <<now, req, wk, queue, bg, lastStore, issued, gw, st>>

\* the handler parsing the upload whatever the lookup gave
reconstruct_resolve_reparses(f, r) ==
    LET x == extract_text(r.file, r.ftype)
        called == [f EXCEPT !.parse_called = TRUE, !.ai_calls = @ + 1]
    IN IF "err" \in DOMAIN x
       THEN { Respond(f, HTTPException(500, x.err)) }
       ELSE IF strip(x.text) = ""
       THEN { Respond(f, HTTPException(400, "Could not extract text from file.")) }
       ELSE { Respond(called, HTTPException(500, "parse_resume")) }
            \cup { [called EXCEPT !.parsed = p] : p \in ParsedResumes(x.text) }

\* "if cached: parsed_resume = cached.parsed_resume; else: ..." of the
\* reconstruction handlers: the frames the handler can go on with. On a miss
\* the text is extracted and parse_resume called, which returns or raises
reconstruct_resolve(f, r) ==
    LET x == extract_text(r.file, r.ftype)
        called == [f EXCEPT !.parse_called = TRUE, !.ai_calls = @ + 1]
    IN IF f.cached # None
       THEN { [f EXCEPT !.parsed = f.cached.parsed_resume] }
       ELSE IF "err" \in DOMAIN x
       THEN { Respond(f, HTTPException(500, x.err)) }
       ELSE IF strip(x.text) = ""
       THEN { Respond(f, HTTPException(400, "Could not extract text from file.")) }
       ELSE { Respond(called, HTTPException(500, "parse_resume")) }
            \cup { [called EXCEPT !.parsed = p] : p \in ParsedResumes(x.text) }

\* the texts the model can give back for a resume: the name, the email and
\* the heading of the skills section, or the same without the email
Space == <<" ">>
SkillsHeading == <<"S", "K", "I", "L", "L", "S">>
ReconstructedTexts(parsed) ==
    { parsed.name \o Space \o parsed.email \o Space \o SkillsHeading,
      parsed.name \o Space \o SkillsHeading }

\* reconstruct_resume_fast(parsed_resume, job_description, job_position,
\* provider, model): a pair (gap_analysis, reconstructed_text), or an error
\* of the gateway. steps and prompt_gaps are history: the function runs the
\* gap analyzer and then makes one model call, whose prompt holds the gaps
reconstruct_resume_fast(parsed, jd, pos) ==
    {Raise} \cup
    { [gap_analysis |-> [missing_keywords |-> <<jd>>], reconstructed_text |-> t,
       steps |-> <<"analyze_gaps", "get_ai_response">>,
       prompt_gaps |-> [missing_keywords |-> <<jd>>]] :
         t \in ReconstructedTexts(parsed) }

\* str.lower, character by character, and the operator in of two strings
lower_identity(c) == c
lower(c) ==
    CASE c = "A" -> "a" [] c = "D" -> "d" [] c = "X" -> "x" [] c = "S" -> "s"
      [] c = "K" -> "k" [] c = "I" -> "i" [] c = "L" -> "l" [] OTHER -> c
str_lower(s) == [i \in 1..Len(s) |-> lower(s[i])]
contains(text, sub) ==
    \E i \in 0..(Len(text) - Len(sub)) : SubSeq(text, i + 1, i + Len(sub)) = sub

NameWarning == "Original name may not be present in output"
EmailWarning == "Original email may not be present in output"
SkillsWarning == "Skills section may be missing"

\* validate_reconstruction: a warning for the name and for the email when
\* it is not empty and the text lacks it, and for the skills section when
\* the text lacks the word skills, all in lower case; valid iff no warning
validate_reconstruction_stays_valid(original, reconstructed_text) ==
    LET low == str_lower(reconstructed_text)
        w1 == IF original.name # <<>> /\ ~contains(low, str_lower(original.name))
              THEN <<NameWarning>> ELSE <<>>
        w2 == IF original.email # <<>> /\ ~contains(low, str_lower(original.email))
              THEN <<EmailWarning>> ELSE <<>>
        w3 == IF ~contains(low, <<"s", "k", "i", "l", "l", "s">>)
              THEN <<SkillsWarning>> ELSE <<>>
    IN [valid |-> TRUE, warnings |-> w1 \o w2 \o w3,
        original_name |-> original.name, original_email |-> original.email,
        original_skills_count |-> Len(original.skills),
        original_experience_count |-> Len(original.experience)]
validate_reconstruction(original, reconstructed_text) ==
    LET low == str_lower(reconstructed_text)
        w1 == IF original.name # <<>> /\ ~contains(low, str_lower(original.name))
              THEN <<NameWarning>> ELSE <<>>
        w2 == IF original.email # <<>> /\ ~contains(low, str_lower(original.email))
              THEN <<EmailWarning>> ELSE <<>>
        w3 == IF ~contains(low, <<"s", "k", "i", "l", "l", "s">>)
              THEN <<SkillsWarning>> ELSE <<>>
        warnings == w1 \o w2 \o w3
    IN [valid |-> warnings = <<>>, warnings |-> warnings,
        original_name |-> original.name, original_email |-> original.email,
        original_skills_count |-> Len(original.skills),
        original_experience_count |-> Len(original.experience)]

\* the response of an endpoint for the result out of the fast pipeline
reconstruct_response(ep, parsed, out, pos, jd) ==
    IF ep = "docx"
    THEN [status |-> 200, media_type |-> "docx", document |-> out.reconstructed_text,
          headers |-> {"Content-Disposition"}]
    ELSE IF ep = "preview"
    THEN [status |-> 200, success |-> TRUE,
          reconstructed_text |-> out.reconstructed_text,
          validation |-> validate_reconstruction(parsed, out.reconstructed_text),
          gap_analysis |-> out.gap_analysis,
          parsed_resume_summary |-> parsed.name]
    ELSE [status |-> 200, media_type |-> "pdf",
          document |-> <<out.reconstructed_text, parsed, out.gap_analysis, pos, jd>>,
          headers |-> {"Content-Disposition"}]

\* validation = validate_reconstruction(parsed_resume, reconstructed_text):
\* the DOCX and the preview handlers call it, the PDF handler does not
validated(f, r, out) ==
    IF r.kind = "pdf" THEN f
    ELSE [f EXCEPT !.validation = validate_reconstruction(f.parsed, out.reconstructed_text)]

\* the rest of a reconstruction handler: the fast pipeline, the validation
\* and the rendering of the response; an error of the pipeline is a 500
reconstruct_pipeline_separate(f, r) ==
    LET called == [f EXCEPT !.pipeline = <<"analyze_gaps", "reconstruct_resume">>]
    IN  IF f.pc = "respond"
        THEN {f}
        ELSE { IF out = Raise
               THEN Respond(called, HTTPException(500, "provider error"))
               ELSE Respond(validated(called, r, out),
                            reconstruct_response(r.kind, f.parsed, out, r.pos, r.jd)) :
                  out \in reconstruct_resume_fast(f.parsed, r.jd, r.pos) }
reconstruct_pipeline(f, r) ==
    LET called == [f EXCEPT !.pipeline = <<"reconstruct_resume_fast">>]
    IN  IF f.pc = "respond"
        THEN {f}
        ELSE { IF out = Raise
               THEN Respond(called, HTTPException(500, "provider error"))
               ELSE Respond(validated(called, r, out),
                            reconstruct_response(r.kind, f.parsed, out, r.pos, r.jd)) :
                  out \in reconstruct_resume_fast(f.parsed, r.jd, r.pos) }

\* a consumer that puts the name of the resume it was given in lower case
consume_parsed_resume_in_place(parsed) == [parsed EXCEPT !.name = str_lower(@)]

\* what the consumers of a ParsedResume leave of the object they are given:
\* the prompts serialise it, the validation and the PDF generator read its
\* fields, and none assigns to it
consume_parsed_resume(parsed) == parsed

\* a handler that stores the resume it parsed after a miss
cache_after_pipeline_stores(f) ==
    IF f.parse_called /\ f.parsed # None
    THEN dict_set(cache, generate_session_id(req.file, req.jd),
                  CachedSession(f.parsed.cv_text, f.parsed, _generate_file_hash(req.file),
                                now, req.jd, req.pos))
    ELSE cache

\* the cache after the handler with frame f ran its pipeline: after a hit
\* the handler's parsed_resume is the object of the cache entry
cache_after_pipeline(f) ==
    [k \in DOMAIN cache |->
        IF f.cached # None /\ f.pipeline # <<>> /\ cache[k] = f.cached
        THEN [cache[k] EXCEPT !.parsed_resume = consume_parsed_resume(@)]
        ELSE cache[k]]

\* the handler without the lookup of the derived id after a miss on the
\* supplied one
reconstruct_continue_no_fallback ==
    /\ lp.pc = "got"
    /\ \E f1 \in reconstruct_resolve([lp EXCEPT !.cached = lp.g_ret], req) :
          \E f2 \in reconstruct_pipeline(f1, req) :
              lp' = f2 /\ cache' = cache_after_pipeline(f2)
    /\ UNCHANGED <<now, req, wk, queue, bg, lastStore, issued, gw, st>>

\* the handler takes get_session's result: cached = get_session(...). After
\* a miss on the supplied id the id derived from the content is looked up;
\* otherwise the handler runs to its response
reconstruct_continue ==
    /\ lp.pc = "got"
    /\ IF lp.stage = "sid" /\ lp.g_ret = None
       THEN /\ lp' = call_get_session([lp EXCEPT !.cached = None], "auto",
                                      generate_session_id(req.file, req.jd))
            /\ cache' = cache
       ELSE \E f1 \in reconstruct_resolve([lp EXCEPT !.cached = lp.g_ret], req) :
               \E f2 \in reconstruct_pipeline(f1, req) :
                   lp' = f2 /\ cache' = cache_after_pipeline(f2)
    /\ UNCHANGED <<now, req, wk, queue, bg, lastStore, issued, gw, st>>

\* the response is sent and the event loop is free for the next request
respond ==
    /\ lp.pc = "respond"
    /\ lp' = IdleLoop
    /\ req' = NoReq
    /\ bg' = "none"
    /\ queue' = [i \in DOMAIN queue |-> [queue[i] EXCEPT !.cur = FALSE]]
    /\ wk' = [w \in Workers |->
                IF wk[w].task = NoTask THEN wk[w] ELSE [wk[w] EXCEPT !.task.cur = FALSE]]
    /\ issued' = IF req.kind = "analyze" /\ lp.resp.status = 200
                 THEN issued \cup {lp.resp.session_id} ELSE issued
    /\ UNCHANGED <<cache, now, lastStore, gw, st>>

LoopStep(analysisForms, reconstructionForms) ==
    \/ \E form \in analysisForms : analyze_cv_begin(form)
    \/ analyze_cv_return
    \/ \E form \in reconstructionForms : reconstruct_begin(form)
    \/ get_session_get
    \/ get_session_check
    \/ get_session_del
    \/ reconstruct_continue
    \/ respond

(***************************************************************************)
(* The AI gateway: get_ai_response and the retry loops of the providers    *)
(***************************************************************************)
provider_map == {"Ollama", "Gemini", "OpenAI", "Claude"}
\* the provider names a caller passes: those of the map and another one
ProviderNames == provider_map \cup {"Mistral"}
Models == {"model-a", "model-b"}

\* the default of the parameter max_retries of the provider functions
OLLAMA_MAX_RETRIES == 2
API_MAX_RETRIES == 3
max_retries(fn) == IF fn = "get_ollama_response" THEN OLLAMA_MAX_RETRIES ELSE API_MAX_RETRIES

\* provider_map[provider]: the function get_ai_response calls for the name
provider_function(provider) ==
    CASE provider = "Ollama" -> "get_ollama_response"
      [] provider = "Gemini" -> "get_gemini_response"
      [] provider = "OpenAI" -> "get_openai_response"
      [] provider = "Claude" -> "get_claude_response"

\* the wait of get_ollama_response after a timeout
OLLAMA_TIMEOUT_WAIT == 3

\* what one attempt can end with: the text of the answer, or an exception.
\* For Ollama a status other than 200 is raised as an Exception inside the
\* try block; requests raises Timeout and ConnectionError. "Timeout" is any
\* instance of requests.exceptions.Timeout, which the first except clause
\* takes, and "ConnectionError" an instance that is not also a Timeout
AttemptOutcomes(fn) ==
    IF fn = "get_ollama_response"
    THEN {"ok", "status", "Timeout", "ConnectionError", "Exception"}
    ELSE {"ok", "Exception", "no text"}

gateway_raise(f, message) == [f EXCEPT !.pc = "raised", !.result = [error |-> message]]
gateway_return(f, value) == [f EXCEPT !.pc = "returned", !.result = value]

\* time.sleep(seconds); continue: the next round of "for attempt in
\* range(max_retries)", or the end of the loop and of the function, which
\* then returns None
sleep_and_continue(f, kind, seconds) ==
    LET g == [f EXCEPT !.sleeps = Append(@, [after |-> f.attempt, kind |-> kind,
                                             seconds |-> seconds])]
    IN IF f.attempt + 1 < f.max_retries
       THEN [g EXCEPT !.attempt = @ + 1]
       ELSE gateway_return(g, None)

\* the retry test with the bound one too high
retry_or_raise_once_more(f, kind, seconds, message) ==
    IF f.attempt < f.max_retries
    THEN sleep_and_continue(f, kind, seconds)
    ELSE gateway_raise(f, message)

\* "if attempt < max_retries - 1: time.sleep(...); continue / else: raise"
retry_or_raise(f, kind, seconds, message) ==
    IF f.attempt < f.max_retries - 1
    THEN sleep_and_continue(f, kind, seconds)
    ELSE gateway_raise(f, message)

\* a backoff that grows by two seconds an attempt
backoff_linear(attempt) == 2 * attempt

\* 2 ** attempt
backoff(attempt) == 2 ^ attempt

\* get_ai_response with a provider it falls back on for an unknown name
get_ai_response_with_default(provider, model) ==
    /\ gw.pc = "idle"
    /\ LET known == IF provider \in provider_map THEN provider ELSE "Ollama"
           f == [IdleGateway EXCEPT !.provider = provider, !.model = model,
                                    !.fn = provider_function(known)]
       IN \E client \in IF f.fn = "get_ollama_response" THEN {"ok"} ELSE {"ok", "raises"} :
             gw' = IF client = "raises"
                   THEN gateway_raise(f, "client")
                   ELSE [f EXCEPT !.pc = "attempt", !.max_retries = max_retries(f.fn)]
    /\ UNCHANGED <<apiVars, st>>

\* get_ai_response: the lookup in provider_map and the call of the provider
\* function up to its loop. Gemini, OpenAI and Claude build their client
\* before the loop, outside any try
get_ai_response(provider, model) ==
    /\ gw.pc = "idle"
    /\ LET f == [IdleGateway EXCEPT !.provider = provider, !.model = model]
       IN IF provider \notin provider_map
          THEN gw' = gateway_raise(f, "Unknown provider")
          ELSE LET g == [f EXCEPT !.fn = provider_function(provider)]
               IN \E client \in IF g.fn = "get_ollama_response" THEN {"ok"}
                                                                ELSE {"ok", "raises"} :
                     gw' = IF client = "raises"
                           THEN gateway_raise(g, "client")
                           ELSE [g EXCEPT !.pc = "attempt",
                                          !.max_retries = max_retries(g.fn)]
    /\ UNCHANGED <<apiVars, st>>

\* get_ollama_response without the handler of ConnectionError: the error is
\* retried as any other
provider_attempt_retries_connection ==
    /\ gw.pc = "attempt"
    /\ \E outcome \in AttemptOutcomes(gw.fn) :
         LET f == [gw EXCEPT !.calls = @ + 1]
             failed == [f EXCEPT !.failures = Append(@, outcome)]
         IN gw' = IF outcome = "ok"
                  THEN gateway_return(f, [text |-> "answer of " \o f.model])
                  ELSE IF f.fn = "get_ollama_response" /\ outcome = "Timeout"
                  THEN retry_or_raise(failed, outcome, OLLAMA_TIMEOUT_WAIT, "timed out")
                  ELSE retry_or_raise(failed, outcome, backoff(f.attempt),
                                      f.provider \o " API error")
    /\ UNCHANGED <<apiVars, st>>

\* one round of the loop of a provider function: the call and its handlers
provider_attempt ==
    /\ gw.pc = "attempt"
    /\ \E outcome \in AttemptOutcomes(gw.fn) :
         LET f == [gw EXCEPT !.calls = @ + 1]
             failed == [f EXCEPT !.failures = Append(@, outcome)]
         IN gw' = IF outcome = "ok"
                  THEN gateway_return(f, [text |-> "answer of " \o f.model])
                  ELSE IF f.fn = "get_ollama_response" /\ outcome = "Timeout"
                  THEN retry_or_raise(failed, outcome, OLLAMA_TIMEOUT_WAIT, "timed out")
                  ELSE IF f.fn = "get_ollama_response" /\ outcome = "ConnectionError"
                  THEN gateway_raise(failed, "Cannot connect to Ollama")
                  ELSE retry_or_raise(failed, outcome, backoff(f.attempt),
                                      f.provider \o " API error")
    /\ UNCHANGED <<apiVars, st>>

\* the caller has the result or the error of the call
gateway_done ==
    /\ gw.pc \in {"returned", "raised"}
    /\ gw' = IdleGateway
    /\ UNCHANGED <<apiVars, st>>

(***************************************************************************)
(* The texts of the model. A text is a sequence of tokens: a code-fence    *)
(* marker, the language tag "json", a line break, a sentence of prose, or  *)
(* the text of a JSON document. No token but the line break starts or ends *)
(* with white space. The token of the fence marker stands for the three    *)
(* backquotes of Markdown, which no other token holds                      *)
(***************************************************************************)
Fence == "<fence>"
JsonTag == "json"
LineBreak == "\n"
ProseBefore == "Here is the JSON:"
ProseAfter == "Hope this helps!"

\* the keys of the JSON objects of the model, in the order of their texts,
\* and the value each key carries when it is present
ObjectKeys == {"name", "skills", "experience", "missing_keywords", "matched_skills"}
KeyOrder == <<"name", "skills", "experience", "missing_keywords", "matched_skills">>
StubValue(k) ==
    CASE k = "name" -> "Ada"
      [] k = "skills" -> <<"Python", "SQL">>
      [] k = "experience" -> << [company |-> "Acme"] >>
      [] k = "missing_keywords" -> <<"Kubernetes">>
      [] k = "matched_skills" -> <<"Python", "SQL">>
MemberText(k) ==
    CASE k = "name" -> "\"name\": \"Ada\""
      [] k = "skills" -> "\"skills\": [\"Python\", \"SQL\"]"
      [] k = "experience" -> "\"experience\": [{\"company\": \"Acme\"}]"
      [] k = "missing_keywords" -> "\"missing_keywords\": [\"Kubernetes\"]"
      [] k = "matched_skills" -> "\"matched_skills\": [\"Python\", \"SQL\"]"

RECURSIVE MembersText(_, _, _)
MembersText(S, i, first) ==
    IF i > Len(KeyOrder) THEN ""
    ELSE IF KeyOrder[i] \in S
         THEN (IF first THEN "" ELSE ", ") \o MemberText(KeyOrder[i])
                  \o MembersText(S, i + 1, FALSE)
         ELSE MembersText(S, i + 1, first)
ObjectText(S) == "{" \o MembersText(S, 1, TRUE) \o "}"

\* the values json.loads returns: a dict, a list, or None for null
JObject(S) == [type |-> "dict", items |-> [k \in S |-> StubValue(k)]]
JArray(seq) == [type |-> "list", items |-> seq]

\* the texts that are JSON documents, and a text cut short that is none
ObjectTexts == { ObjectText(S) : S \in SUBSET ObjectKeys }
JsonTexts == ObjectTexts \cup {"[]", "[\"Python\"]", "null"}
Truncated == "{\"name\": \"Ada\""
DocTexts == JsonTexts \cup {Truncated}

\* the answers of the model to a prompt that demands JSON: the document
\* alone, inside fences, between line breaks, or with prose around it
Wrappings(d) ==
    { <<d>>,
      <<Fence, JsonTag, LineBreak, d, LineBreak, Fence>>,
      <<Fence, LineBreak, d, LineBreak, Fence>>,
      <<LineBreak, d, LineBreak>>,
      <<ProseBefore, LineBreak, d>>,
      <<d, LineBreak, ProseAfter>>,
      <<ProseBefore, LineBreak, Fence, JsonTag, LineBreak, d, LineBreak, Fence>> }
JsonResponses == UNION { Wrappings(d) : d \in DocTexts } \cup { <<>> }

\* str.strip, str.startswith, str.endswith and the slices, on tokens
RECURSIVE lstrip(_)
lstrip(text) ==
    IF text # <<>> /\ Head(text) = LineBreak THEN lstrip(Tail(text)) ELSE text
RECURSIVE rstrip(_)
rstrip(text) ==
    IF text # <<>> /\ text[Len(text)] = LineBreak
    THEN rstrip(SubSeq(text, 1, Len(text) - 1)) ELSE text
str_strip(text) == rstrip(lstrip(text))
startswith(text, prefix) ==
    Len(text) >= Len(prefix) /\ SubSeq(text, 1, Len(prefix)) = prefix
endswith(text, suffix) ==
    Len(text) >= Len(suffix)
        /\ SubSeq(text, Len(text) - Len(suffix) + 1, Len(text)) = suffix
drop_first(text, n) == SubSeq(text, n + 1, Len(text))
drop_last(text, n) == SubSeq(text, 1, Len(text) - n)

\* json.loads: the text is one JSON document, or JSONDecodeError
JSONDecodeError == [raised |-> "JSONDecodeError"]
json_loads(text) ==
    IF Len(text) = 1 /\ text[1] \in JsonTexts
    THEN IF text[1] = "null" THEN None
         ELSE IF text[1] = "[]" THEN JArray(<<>>)
         ELSE IF text[1] = "[\"Python\"]" THEN JArray(<<"Python">>)
         ELSE JObject(CHOOSE S \in SUBSET ObjectKeys : ObjectText(S) = text[1])
    ELSE JSONDecodeError

\* the truth value of a value of Python, and dict.get
falsy(v) == v = None \/ (v # None /\ v.items = <<>>)
is_dict(v) == v # None /\ v.type = "dict"
get(d, key, default) == IF key \in DOMAIN d THEN d[key] ELSE default

(***************************************************************************)
(* services/resume_parser.py                                               *)
(***************************************************************************)
\* the three slices of parse_json_safely: the fence marker with the tag
\* json in front, then the fence marker in front, then the fence marker at
\* the end, each when it is there
unfence_no_plain(response) ==
    LET r1 == IF startswith(response, <<Fence, JsonTag>>)
              THEN drop_first(response, 2) ELSE response
    IN  IF endswith(r1, <<Fence>>) THEN drop_last(r1, 1) ELSE r1
unfence(response) ==
    LET r1 == IF startswith(response, <<Fence, JsonTag>>)
              THEN drop_first(response, 2) ELSE response
        r2 == IF startswith(r1, <<Fence>>) THEN drop_first(r1, 1) ELSE r1
    IN  IF endswith(r2, <<Fence>>) THEN drop_last(r2, 1) ELSE r2

\* parse_json_safely of the parser: None when the text is not JSON
parse_json_safely(response) ==
    LET loaded == json_loads(str_strip(unfence(str_strip(response))))
    IN  IF loaded = JSONDecodeError THEN None ELSE loaded

ExperienceEntry(exp) ==
    [company |-> get(exp, "company", ""),
     job_title |-> get(exp, "job_title", ""),
     duration |-> get(exp, "duration", ""),
     location |-> get(exp, "location", ""),
     responsibilities |-> get(exp, "responsibilities", <<>>)]

\* the ParsedResume built from the dict data. The projects and the
\* education of the documents of the model are always absent
ParsedResume(data) ==
    [name |-> get(data, "name", ""),
     email |-> get(data, "email", ""),
     phone |-> get(data, "phone", ""),
     linkedin |-> get(data, "linkedin", ""),
     location |-> get(data, "location", ""),
     summary |-> get(data, "summary", ""),
     skills |-> get(data, "skills", <<>>),
     certifications |-> get(data, "certifications", <<>>),
     languages |-> get(data, "languages", <<>>),
     experience |-> LET exps == get(data, "experience", <<>>)
                    IN  [i \in 1..Len(exps) |-> ExperienceEntry(exps[i])],
     projects |-> get(data, "projects", <<>>),
     education |-> get(data, "education", <<>>)]

ParseFailed == [raised |-> "Failed to parse resume into structured format"]
AttributeError == [raised |-> "AttributeError"]
GatewayError == [raised |-> "gateway"]

\* what parse_resume does with the response of the gateway
parse_resume_result(response) ==
    LET data == parse_json_safely(response)
    IN  IF falsy(data) THEN ParseFailed
        ELSE IF ~is_dict(data) THEN AttributeError
        ELSE [returned |-> ParsedResume(data.items)]

\* a stage calls get_ai_response once: the gateway answers or raises, and
\* what it raises leaves the stage
stage_call(stage, responses) ==
    /\ st.pc = "idle"
    /\ \/ \E r \in responses :
            st' = [IdleStage EXCEPT !.pc = "answered", !.stage = stage,
                                    !.response = r, !.calls = 1]
       \/ st' = [IdleStage EXCEPT !.pc = "done", !.stage = stage,
                                  !.calls = 1, !.result = GatewayError]
    /\ UNCHANGED <<apiVars, gw>>

parse_resume_call == stage_call("parse_resume", JsonResponses)

\* parse_resume after the call of the gateway
parse_resume_finish_retries ==
    /\ st.pc = "answered" /\ st.stage = "parse_resume"
    /\ IF falsy(parse_json_safely(st.response)) /\ st.calls < 2
       THEN \E r \in JsonResponses :
                st' = [st EXCEPT !.response = r, !.calls = @ + 1]
       ELSE st' = [st EXCEPT !.pc = "done",
                             !.result = parse_resume_result(st.response)]
    /\ UNCHANGED <<apiVars, gw>>
parse_resume_finish ==
    /\ st.pc = "answered" /\ st.stage = "parse_resume"
    /\ st' = [st EXCEPT !.pc = "done", !.result = parse_resume_result(st.response)]
    /\ UNCHANGED <<apiVars, gw>>

\* the caller has the result or the error of the stage
stage_done ==
    /\ st.pc = "done"
    /\ st' = IdleStage
    /\ UNCHANGED <<apiVars, gw>>

(***************************************************************************)
(* services/gap_analyzer.py                                                *)
(***************************************************************************)
\* parse_json_safely of the gap analyzer: the empty dict when the text is
\* not JSON
gap_parse_json_safely(response) ==
    LET loaded == json_loads(str_strip(unfence(str_strip(response))))
    IN  IF loaded = JSONDecodeError THEN JObject({}) ELSE loaded

\* the GapAnalysis built from the dict data
GapAnalysis_swapped(data) ==
    [missing_keywords |-> get(data, "matched_skills", <<>>),
     weak_sections |-> get(data, "weak_sections", <<>>),
     improvement_recommendations |-> get(data, "improvement_recommendations", <<>>),
     priority_skills |-> get(data, "priority_skills", <<>>),
     jd_keywords |-> get(data, "jd_keywords", <<>>),
     matched_skills |-> get(data, "missing_keywords", <<>>)]
GapAnalysis(data) ==
    [missing_keywords |-> get(data, "missing_keywords", <<>>),
     weak_sections |-> get(data, "weak_sections", <<>>),
     improvement_recommendations |-> get(data, "improvement_recommendations", <<>>),
     priority_skills |-> get(data, "priority_skills", <<>>),
     jd_keywords |-> get(data, "jd_keywords", <<>>),
     matched_skills |-> get(data, "matched_skills", <<>>)]

\* what analyze_gaps does with the response of the gateway
analyze_gaps_result(response) ==
    LET data == gap_parse_json_safely(response)
    IN  IF ~is_dict(data) THEN AttributeError
        ELSE [returned |-> GapAnalysis(data.items)]

analyze_gaps_call == stage_call("analyze_gaps", JsonResponses)

\* analyze_gaps after the call of the gateway
analyze_gaps_finish ==
    /\ st.pc = "answered" /\ st.stage = "analyze_gaps"
    /\ st' = [st EXCEPT !.pc = "done", !.result = analyze_gaps_result(st.response)]
    /\ UNCHANGED <<apiVars, gw>>

(***************************************************************************)
(* services/resume_reconstructor.py                                        *)
(***************************************************************************)
\* the answers of the model to the enhancement prompt: the text in the
\* format of the template, alone, inside fences, or with prose around it
HeaderMarker == "=== HEADER ==="
SkillsMarker == "=== SKILLS ==="
TextTag == "text"
Preamble == "Here is the enhanced resume:"
Closing == "Good luck with the application!"
TemplateText ==
    <<HeaderMarker, LineBreak, "Ada", LineBreak, SkillsMarker, LineBreak, "Python, SQL">>
TemplateResponses ==
    { TemplateText,
      <<LineBreak>> \o TemplateText \o <<LineBreak>>,
      <<Fence, LineBreak>> \o TemplateText \o <<LineBreak, Fence>>,
      <<Fence, TextTag, LineBreak>> \o TemplateText \o <<LineBreak, Fence>>,
      <<Fence, LineBreak>> \o TemplateText \o <<LineBreak, Fence, LineBreak, Closing>>,
      <<Preamble, LineBreak>> \o TemplateText,
      <<Preamble, LineBreak, Fence, LineBreak>> \o TemplateText \o <<LineBreak, Fence>>,
      <<Fence, LineBreak, Preamble, LineBreak>> \o TemplateText \o <<LineBreak, Fence>> }

\* str.split("\n") and "\n".join
RECURSIVE split_lines(_)
split_lines(text) ==
    LET breaks == { i \in 1..Len(text) : text[i] = LineBreak }
        b == CHOOSE i \in breaks : \A j \in breaks : i <= j
    IN  IF breaks = {} THEN <<text>>
        ELSE <<SubSeq(text, 1, b - 1)>> \o split_lines(SubSeq(text, b + 1, Len(text)))
RECURSIVE join_lines(_)
join_lines(lines) ==
    IF lines = <<>> THEN <<>>
    ELSE IF Len(lines) = 1 THEN lines[1]
    ELSE lines[1] \o <<LineBreak>> \o join_lines(Tail(lines))

\* the clean-up of reconstruct_resume: a text that starts with a fence
\* marker loses its first line, and its last line when that is a fence marker
remove_code_block(reconstructed) ==
    LET lines == split_lines(reconstructed)
        l1 == IF startswith(lines[1], <<Fence>>) THEN Tail(lines) ELSE lines
        l2 == IF l1 # <<>> /\ str_strip(l1[Len(l1)]) = <<Fence>>
              THEN SubSeq(l1, 1, Len(l1) - 1) ELSE l1
    IN  join_lines(l2)

\* what reconstruct_resume does with the response of the gateway
reconstruct_resume_result(response) ==
    LET reconstructed == str_strip(response)
    IN  [returned |-> IF startswith(reconstructed, <<Fence>>)
                      THEN remove_code_block(reconstructed)
                      ELSE reconstructed]

reconstruct_resume_call == stage_call("reconstruct_resume", TemplateResponses)

\* reconstruct_resume after the call of the gateway
reconstruct_resume_finish ==
    /\ st.pc = "answered" /\ st.stage = "reconstruct_resume"
    /\ st' = [st EXCEPT !.pc = "done", !.result = reconstruct_resume_result(st.response)]
    /\ UNCHANGED <<apiVars, gw>>

\* the resumes and the texts given to the validation: the name and the
\* email are empty or in one of two spellings, and the text holds each of
\* the name, the email and the word skills whole, in part or not at all
ValidationNames == { <<>>, <<"A", "d", "a">>, <<"A", "D", "A">> }
ValidationEmails == { <<>>, <<"a", "@", "x">>, <<"A", "@", "X">> }
ValidationOriginals ==
    { [name |-> n, email |-> e, skills |-> <<"Python", "SQL">>, experience |-> <<>>] :
         n \in ValidationNames, e \in ValidationEmails }
ValidationTexts ==
    { n \o Space \o e \o Space \o k :
         n \in { <<>>, <<"a", "d", "a">>, <<"A", "D", "A">>, <<"A", "d">> },
         e \in { <<>>, <<"a", "@", "x">>, <<"A", "@", "X">>, <<"a", "@">> },
         k \in { <<>>, SkillsHeading, <<"S", "k", "i", "l", "l", "s">>,
                 <<"s", "k", "i", "l", "l">> } }

\* a call of validate_reconstruction, which calls no model
validate_reconstruction_call ==
    /\ st.pc = "idle"
    /\ \E original \in ValidationOriginals, text \in ValidationTexts :
          st' = [IdleStage EXCEPT
                    !.pc = "done", !.stage = "validate_reconstruction",
                    !.original = original, !.response = text,
                    !.result = [returned |-> validate_reconstruction(original, text)]]
    /\ UNCHANGED <<apiVars, gw>>

(***************************************************************************)
(* Specifications                                                          *)
(***************************************************************************)
\* Spec: the threads interleave at every access to the shared dict. The
\* uploads are those with one resume (and the unusable ones), so that all
\* sessions share one id
OneResume(forms) == { f \in forms : f.file # "cvB" }

Next ==
    \/ LoopStep(OneResume(AnalysisForms), OneResume(ReconstructionForms))
    \/ \E w \in Workers : WorkerStep(w)
    \/ Tick

Spec == Init /\ [][Next]_vars

\* a thread is inside a cache operation: between its first access to the
\* dict and its return
InGet == lp.pc \in {"g_check", "g_del"}
InStore(w) == wk[w].pc \in {"sweep", "iter", "del"}
NoOtherInCache(t) == (t # Loop => ~InGet) /\ \A w \in Workers \ {t} : ~InStore(w)

\* SeqSpec: sequential executions, with all the uploads. The cache
\* operations do not overlap and take no time: while a thread is inside
\* get_session or store_session no other thread runs and the clock stands
SeqNext ==
    \/ \E form \in AnalysisForms : NoOtherInCache(Loop) /\ analyze_cv_begin(form)
    \/ NoOtherInCache(Loop) /\ analyze_cv_return
    \/ \E form \in ReconstructionForms : NoOtherInCache(Loop) /\ reconstruct_begin(form)
    \/ NoOtherInCache(Loop) /\ get_session_get
    \/ NoOtherInCache(Loop) /\ get_session_check
    \/ NoOtherInCache(Loop) /\ get_session_del
    \/ NoOtherInCache(Loop) /\ reconstruct_continue
    \/ NoOtherInCache(Loop) /\ respond
    \/ \E w \in Workers : NoOtherInCache(w) /\ cache_parsed_resume_begin(w)
    \/ \E w \in Workers : NoOtherInCache(w) /\ store_session_write(w)
    \/ \E w \in Workers : NoOtherInCache(w) /\ cleanup_expired_begin(w)
    \/ \E w \in Workers : NoOtherInCache(w) /\ cleanup_expired_next(w)
    \/ \E w \in Workers : NoOtherInCache(w) /\ cleanup_expired_del(w)
    \/ NoOtherInCache("clock") /\ Tick

SeqSpec == Init /\ [][SeqNext]_vars

\* GatewaySpec: the calls of the gateway, one after the other
GatewayNext ==
    \/ \E provider \in ProviderNames, model \in Models : get_ai_response(provider, model)
    \/ provider_attempt
    \/ gateway_done

GatewaySpec == Init /\ [][GatewayNext]_vars

\* StageSpec: the calls of the stages, one after the other, each with an
\* answer of the model
StageNext ==
    \/ parse_resume_call
    \/ parse_resume_finish
    \/ analyze_gaps_call
    \/ analyze_gaps_finish
    \/ reconstruct_resume_call
    \/ reconstruct_resume_finish
    \/ validate_reconstruction_call
    \/ stage_done

StageSpec == Init /\ [][StageNext]_vars

(***************************************************************************)
(* Properties of the session cache                                         *)
(***************************************************************************)
\* the event-loop thread takes a step of get_session
GetStep == lp.pc \in {"g_get", "g_check", "g_del"} /\ lp' # lp
\* get_session has returned a session, or None
Hit(f) == f.pc = "got" /\ f.g_ret # None
Miss(f) == f.pc = "got" /\ f.g_ret = None
\* the age of an entry, and whether the dict d holds a live entry for id
Age(session) == now - session.created_at
Live(d, id) == id \in DOMAIN d /\ Age(d[id]) <= CACHE_TTL
\* the id was stored and its last store is more than CACHE_TTL ago
Lapsed(id) == id \in DOMAIN lastStore /\ lastStore[id] >= 0 /\ now > lastStore[id] + CACHE_TTL

\* C1: a get_session for an id whose last store_session is more than
\* CACHE_TTL seconds ago never returns a session: it misses, and so does
\* every later one until the id is stored again
C1_ExpiryIsPermanent ==
    [][ (GetStep /\ Lapsed(lp.g_id)) => ~Hit(lp') ]_vars

\* both lookups of one request ask for the same lapsed id: the first removes
\* the expired entry, the second finds nothing
C1_Witness ==
    /\ Miss(lp) /\ Len(lp.lookups) = 2
    /\ lp.lookups[1].id = lp.lookups[2].id
    /\ lp.lookups[1].ret = None
    /\ Lapsed(lp.g_id)
    /\ lp.g_session # None

\* C2: get_session(id) returns the stored session exactly when the id is in
\* the cache with an age of at most CACHE_TTL, and then leaves the cache as
\* it is; otherwise it returns None, the cache losing the id if it held an
\* expired entry for it and staying as it is if the id was absent; it never
\* raises
C2_GetSessionContract ==
    [][ GetStep =>
          /\ Hit(lp') => Live(cache, lp.g_id) /\ lp'.g_ret = cache[lp.g_id] /\ cache' = cache
          /\ Miss(lp') => /\ ~Live(cache, lp.g_id)
                          /\ cache' = [k \in (DOMAIN cache) \ {lp.g_id} |-> cache[k]]
          /\ Live(cache, lp.g_id) => cache' = cache /\ lp'.pc \in {"g_check", "got"}
          /\ lp'.pc \in {"g_check", "g_del", "got"}
          /\ lp'.pc # "got" => cache' = cache
      ]_vars

\* get_session has returned None for an id whose expired entry it removed,
\* another session staying in the cache
C2_Witness ==
    /\ Miss(lp) /\ Len(lp.lookups) = 1
    /\ lp.g_session # None /\ Age(lp.g_session) > CACHE_TTL
    /\ lp.g_id \notin DOMAIN cache
    /\ DOMAIN cache # {}

\* store_session returns to its caller in this step of thread w
StoreReturns(w) == wk[w].pc \in {"sweep", "iter", "del"} /\ wk'[w].pc = "idle"

\* C3: in a sequential execution store_session returns normally, and when it
\* does the cache maps the session id to an entry with exactly the given
\* text, parsed resume, file hash, job description and job position and the
\* time of the store as created_at, and holds no entry older than CACHE_TTL
C3_StoreSessionUpsert ==
    [][ \A w \in Workers : StoreReturns(w) =>
          /\ wk[w].pc = "del" /\ wk[w].expired = <<>>
          /\ bg' \in {bg, "stored"}
          /\ wk[w].session_id \in DOMAIN cache'
          /\ cache'[wk[w].session_id] =
                [cv_text |-> wk[w].task.cv_text, parsed_resume |-> wk[w].parsed,
                 file_hash |-> md5(wk[w].task.file_bytes), created_at |-> now,
                 job_description |-> wk[w].task.job_description,
                 job_position |-> wk[w].task.job_position]
          /\ \A k \in DOMAIN cache' : Age(cache'[k]) <= CACHE_TTL
      ]_vars

\* a store_session is about to return after its sweep removed the expired
\* entry of another id and its write replaced an older entry of its own id
C3_Witness ==
    \E w \in Workers :
        /\ wk[w].pc = "del" /\ wk[w].expired = <<>>
        /\ wk[w].visited \ DOMAIN cache # {}
        /\ wk[w].session_id \in DOMAIN cache
        /\ lastStore[wk[w].session_id] = now
        /\ now > 0

(***************************************************************************)
(* Properties of the request handlers and the cache warming, under Spec    *)
(***************************************************************************)
\* C4: under every interleaving of the threads no cache operation fails:
\* get_session never raises, and store_session with its sweep always returns
\* normally
C4_NoOperationFails ==
    [][ /\ GetStep => lp'.pc # "respond"
        /\ \A w \in Workers : StoreReturns(w) => wk[w].pc = "del" /\ wk[w].expired = <<>>
      ]_vars

ReconKinds == {"docx", "preview", "pdf"}
\* the request is a reconstruction for a pair an analysis has answered, and
\* supplies the session id of that answer
ReusesIssuedId ==
    /\ req.kind \in ReconKinds
    /\ req.sid \in issued
    /\ req.sid = generate_session_id(req.file, req.jd)

\* C5 as stated: a reconstruction request that follows the analysis response
\* for the same pair and supplies its session id never calls parse_resume
C5_ReuseAfterResponse == ReusesIssuedId => ~lp.parse_called

\* C5: such a request does not call parse_resume when its lookup of the
\* supplied id finds an entry that is at most CACHE_TTL old: get_session
\* then returns that entry and the handler goes on with its parsed resume
C5_ReuseWhenStored ==
    [][ (ReusesIssuedId /\ lp' # lp /\ lp.stage = "sid") =>
          /\ (lp.pc = "g_get" /\ lp.g_id \in DOMAIN cache) => lp'.g_session = cache[lp.g_id]
          /\ (lp.pc = "g_check" /\ Age(lp.g_session) <= CACHE_TTL) =>
                 Hit(lp') /\ lp'.g_ret = lp.g_session
          /\ Hit(lp) => ~lp'.parse_called /\ lp'.parsed = lp.g_ret.parsed_resume
      ]_vars

\* the reconstruction was answered from the session of the analysis
C5_Witness ==
    /\ ReusesIssuedId /\ lp.pc = "respond" /\ lp.resp.status = 200
    /\ Len(lp.lookups) = 1 /\ lp.lookups[1].ret # None
    /\ lp.parsed = lp.lookups[1].ret.parsed_resume
    /\ ~lp.parse_called

\* the lookups of the request that missed
SidMiss == req.sid # "" => \E i \in DOMAIN lp.lookups :
                              lp.lookups[i].stage = "sid" /\ lp.lookups[i].ret = None
AutoMiss == \E i \in DOMAIN lp.lookups :
               lp.lookups[i].stage = "auto" /\ lp.lookups[i].ret = None
Hits == { i \in DOMAIN lp.lookups : "cv_text" \in DOMAIN lp.lookups[i].ret }
\* the upload gives a text that is not blank
HasText(r) == LET x == extract_text(r.file, r.ftype)
              IN "text" \in DOMAIN x /\ strip(x.text) # ""

\* C6 as stated: a reconstruction handler calls parse_resume if and only if
\* the lookup of the supplied id (when there is one) and the lookup of the
\* derived id both miss
C6_ParseIffBothMiss ==
    (lp.pc = "respond" /\ req.kind \in ReconKinds) =>
        (lp.parse_called <=> (SidMiss /\ AutoMiss))

\* C6: a reconstruction handler calls parse_resume if and only if both
\* lookups miss and the upload gives a text that is not blank; after a hit
\* the parsed resume of the cached session is used and parse_resume is not
\* called
C6_ParseIffBothMissAndText ==
    (lp.pc = "respond" /\ req.kind \in ReconKinds) =>
        /\ lp.parse_called <=> (SidMiss /\ AutoMiss /\ HasText(req))
        /\ \A i \in Hits : ~lp.parse_called /\ lp.parsed = lp.lookups[i].ret.parsed_resume

\* the supplied id and the derived id both missed and the upload was parsed
C6_Witness ==
    /\ lp.pc = "respond" /\ req.kind \in ReconKinds /\ req.sid # ""
    /\ Len(lp.lookups) = 2 /\ SidMiss /\ AutoMiss
    /\ lp.parse_called /\ lp.resp.status = 200

\* the response of a successful analysis of the request r
AnalysisResponse(r) ==
    [status |-> 200, success |-> TRUE,
     analysis |-> [analysis |-> <<"text of " \o r.file, r.jd, r.pos>>,
                   filename |-> r.file, file_type |-> r.ftype],
     session_id |-> md5(md5(r.file) \o md5(r.jd))]

\* C7: once analyze_cv has submitted the background task it can return
\* whatever the state of the task, and its response is a function of the
\* request alone
C7_WarmingDoesNotBlock ==
    /\ lp.pc = "an_return" => ENABLED analyze_cv_return
    /\ (lp.pc = "respond" /\ req.kind = "analyze" /\ lp.resp.status = 200) =>
           lp.resp = AnalysisResponse(req)

\* the analysis has its response while its background task is still running
C7_Witness ==
    /\ lp.pc = "respond" /\ req.kind = "analyze"
    /\ lp.resp = AnalysisResponse(req)
    /\ bg = "running"

\* a pool thread takes a step
PoolStep == Len(queue') < Len(queue) \/ \E w \in Workers : wk'[w].pc # wk[w].pc
Logged == { "logged " \o e : e \in {"parse_resume", "KeyError", "RuntimeError"} }

\* C8: a step of a background task, failing or not, leaves the handler and
\* its request as they are; a task that fails ends logged and in no other
\* way; and the analysis whose task has failed answers with the successful
\* response
C8_BackgroundFailuresSwallowed ==
    [][ /\ PoolStep => /\ UNCHANGED <<lp, req>>
                       /\ bg' \in {bg, "running", "stored"} \cup Logged
        /\ (bg \in Logged /\ lp.pc = "an_return" /\ lp' # lp) =>
               lp'.pc = "respond" /\ lp'.resp = AnalysisResponse(req)
      ]_vars

\* store_session failed inside the task of the analysis, which has its
\* successful response
C8_Witness ==
    /\ lp.pc = "respond" /\ req.kind = "analyze"
    /\ lp.resp = AnalysisResponse(req)
    /\ bg \in {"logged KeyError", "logged RuntimeError"}

(***************************************************************************)
(* Properties of the gateway, under GatewaySpec                            *)
(***************************************************************************)
\* the number of attempts the providers are given
N(provider) == IF provider = "Ollama" THEN 2 ELSE 3
Pow2(k) == IF k = 0 THEN 1 ELSE IF k = 1 THEN 2 ELSE IF k = 2 THEN 4 ELSE 8

\* C9: a call of a provider makes at most N attempts, 2 for Ollama and 3 for
\* Gemini, OpenAI and Claude; once N attempts have failed the call has
\* raised an error: it has not returned and makes no further attempt
C9_RetryBound ==
    gw.provider \in provider_map =>
        /\ gw.calls <= N(gw.provider)
        /\ Len(gw.failures) = N(gw.provider) => gw.pc = "raised"
        /\ gw.pc = "returned" => /\ "text" \in DOMAIN gw.result
                                 /\ Len(gw.failures) = gw.calls - 1

\* every attempt of a call has failed and the call has raised
C9_Witness ==
    /\ gw.pc = "raised"
    /\ gw.calls = N(gw.provider)
    /\ Len(gw.failures) = gw.calls
    /\ "error" \in DOMAIN gw.result

Ollama == gw.provider = "Ollama"
Last(seq) == seq[Len(seq)]

\* C11: a connection error of Ollama on any attempt ends the call at once
\* with the "cannot connect" error, no further attempt being made; a timeout
\* is retried while attempts are left, and a timeout of the last attempt ends
\* the call with the "timed out" error
C11_ConnectionFailsFastTimeoutRetries ==
    (Ollama /\ gw.failures # <<>> /\ gw.calls = Len(gw.failures)) =>
        /\ Last(gw.failures) = "ConnectionError" =>
              gw.pc = "raised" /\ gw.result = [error |-> "Cannot connect to Ollama"]
        /\ "ConnectionError" \notin { gw.failures[i] : i \in 1..(Len(gw.failures) - 1) }
        /\ (Last(gw.failures) = "Timeout" /\ gw.calls < 2) => gw.pc = "attempt"
        /\ (Last(gw.failures) = "Timeout" /\ gw.calls = 2) =>
              gw.pc = "raised" /\ gw.result = [error |-> "timed out"]

\* the first attempt timed out and was retried, the second could not connect
C11_Witness ==
    /\ Ollama /\ gw.pc = "raised"
    /\ gw.failures = <<"Timeout", "ConnectionError">>
    /\ gw.result = [error |-> "Cannot connect to Ollama"]

\* C12: for a provider name outside Ollama, Gemini, OpenAI and Claude
\* get_ai_response raises with no provider call, no wait and no retry; for
\* one of the four it runs the function of that provider and no other
C12_UnknownProviderAndDispatch ==
    gw.pc # "idle" =>
        IF gw.provider \in {"Ollama", "Gemini", "OpenAI", "Claude"}
        THEN gw.fn = "get_" \o (CASE gw.provider = "Ollama" -> "ollama"
                                  [] gw.provider = "Gemini" -> "gemini"
                                  [] gw.provider = "OpenAI" -> "openai"
                                  [] gw.provider = "Claude" -> "claude") \o "_response"
        ELSE /\ gw.pc = "raised" /\ gw.result = [error |-> "Unknown provider"]
             /\ gw.fn = "" /\ gw.calls = 0 /\ gw.failures = <<>> /\ gw.sleeps = <<>>

\* the call for a name outside the map has raised
C12_Witness ==
    /\ gw.provider = "Mistral" /\ gw.pc = "raised"
    /\ gw.result = [error |-> "Unknown provider"] /\ gw.calls = 0

(***************************************************************************)
(* Properties of the parser                                                *)
(***************************************************************************)
\* parse_resume has the answer of the gateway and has returned or raised
Parsed == st.stage = "parse_resume" /\ st.pc = "done" /\ st.result # GatewayError
ValidJson(text) == json_loads(text) # JSONDecodeError

\* the permissive cleanup of the contract: the fences go, and so does what
\* stands before the first opening brace and after the last closing brace
opens_brace(token) == token \in ObjectTexts \cup {Truncated}
closes_brace(token) == token \in ObjectTexts
Least(S) == CHOOSE i \in S : \A j \in S : i <= j
Greatest(S) == CHOOSE i \in S : \A j \in S : i >= j
permissive_cleanup(response) ==
    LET r == str_strip(unfence(str_strip(response)))
        first == { i \in 1..Len(r) : opens_brace(r[i]) }
        last == { i \in 1..Len(r) : closes_brace(r[i]) }
    IN  IF first # {} /\ last # {} /\ Least(first) <= Greatest(last)
        THEN SubSeq(r, Least(first), Greatest(last))
        ELSE r

\* C13: parse_resume raises its parse error exactly when the response is
\* not valid JSON after the permissive cleanup; a JSON object with prose
\* around it is parsed
C13_ParseErrorIffInvalidAfterCleanup ==
    Parsed => (st.result = ParseFailed <=> ~ValidJson(permissive_cleanup(st.response)))

\* C14: for a response that is a JSON object, whatever fields it omits,
\* parse_resume returns a ParsedResume where each omitted field is empty and
\* each present field carries the value of the JSON
C14_MissingFieldsDefault ==
    \A S \in SUBSET ObjectKeys :
        (Parsed /\ st.response = <<ObjectText(S)>>) =>
            /\ "returned" \in DOMAIN st.result
            /\ st.result.returned.name = (IF "name" \in S THEN "Ada" ELSE "")
            /\ st.result.returned.skills =
                   (IF "skills" \in S THEN <<"Python", "SQL">> ELSE <<>>)
            /\ Len(st.result.returned.experience) = (IF "experience" \in S THEN 1 ELSE 0)
            /\ \A field \in {"email", "phone", "linkedin", "location", "summary"} :
                   st.result.returned[field] = ""
            /\ \A field \in {"certifications", "languages", "projects", "education"} :
                   st.result.returned[field] = <<>>

\* the response is the JSON text J inside code-fence markers, with the
\* language tag or without
Fenced(J) ==
    { <<Fence, JsonTag, LineBreak, J, LineBreak, Fence>>,
      <<Fence, LineBreak, J, LineBreak, Fence>> }

\* C15: a response that is a JSON text inside code-fence markers gives the
\* result that the JSON text alone gives
C15_FencesAreTransparent ==
    \A J \in DocTexts :
        (Parsed /\ st.response \in Fenced(J)) => st.result = parse_resume_result(<<J>>)

\* a resume was parsed from a response inside plain fences
C15_Witness ==
    /\ Parsed
    /\ st.response = <<Fence, LineBreak, ObjectText({"name", "skills"}), LineBreak, Fence>>
    /\ "returned" \in DOMAIN st.result
    /\ st.result.returned.name = "Ada"
    /\ st.result.returned.skills = <<"Python", "SQL">>

\* C16: a call of parse_resume calls the gateway exactly once, and on a
\* malformed response it raises with no second call
C16_ParserDoesNotRetry ==
    st.stage = "parse_resume" =>
        /\ st.calls = 1
        /\ (Parsed /\ ~ValidJson(str_strip(unfence(str_strip(st.response))))) =>
               st.result = ParseFailed

\* parse_resume has raised on a response cut short, after one call
C16_Witness ==
    /\ Parsed /\ st.response = <<Truncated>>
    /\ st.result = ParseFailed /\ st.calls = 1

(***************************************************************************)
(* Properties of the gap analyzer                                          *)
(***************************************************************************)
\* analyze_gaps has the answer of the gateway and has returned or raised
Analyzed == st.stage = "analyze_gaps" /\ st.pc = "done" /\ st.result # GatewayError
GapFields ==
    {"jd_keywords", "matched_skills", "missing_keywords", "weak_sections",
     "improvement_recommendations", "priority_skills"}
\* the text of the model, fences and outer white space apart, is a JSON object
IsJsonObject(response) ==
    LET r == str_strip(unfence(str_strip(response)))
    IN  Len(r) = 1 /\ r[1] \in ObjectTexts

\* C17: for every text of the model analyze_gaps returns a GapAnalysis and
\* raises nothing, and when the text is not the expected JSON all six
\* fields are empty
C17_GapAnalysisAlwaysReturned ==
    Analyzed =>
        /\ "returned" \in DOMAIN st.result
        /\ ~IsJsonObject(st.response) =>
               \A field \in GapFields : st.result.returned[field] = <<>>

\* C18: when the stub model returns a JSON object, each of the six fields of
\* the GapAnalysis is the list of the stub under that key, in its order, and
\* the empty list when the key is absent
C18_StubListsReturnedUnchanged ==
    \A S \in SUBSET ObjectKeys :
        (Analyzed /\ st.response = <<ObjectText(S)>>) =>
            /\ "returned" \in DOMAIN st.result
            /\ DOMAIN st.result.returned = GapFields
            /\ st.result.returned.missing_keywords =
                   (IF "missing_keywords" \in S THEN <<"Kubernetes">> ELSE <<>>)
            /\ st.result.returned.matched_skills =
                   (IF "matched_skills" \in S THEN <<"Python", "SQL">> ELSE <<>>)
            /\ \A field \in GapFields \ {"missing_keywords", "matched_skills"} :
                   st.result.returned[field] = <<>>

\* the stub named Kubernetes as missing and Python and SQL as matched
C18_Witness ==
    /\ Analyzed
    /\ st.response = <<ObjectText({"missing_keywords", "matched_skills"})>>
    /\ "returned" \in DOMAIN st.result
    /\ st.result.returned.missing_keywords = <<"Kubernetes">>
    /\ st.result.returned.matched_skills = <<"Python", "SQL">>
    /\ st.result.returned.jd_keywords = <<>>

(***************************************************************************)
(* Properties of the reconstructor                                         *)
(***************************************************************************)
\* a reconstruction handler has its response ready
Reconstructed == lp.pc = "respond" /\ req.kind \in ReconKinds /\ lp.resp.status = 200
FastOutcomes == reconstruct_resume_fast(lp.parsed, req.jd, req.pos) \ {Raise}

Rewritten == st.stage = "reconstruct_resume" /\ st.pc = "done" /\ st.result # GatewayError
\* the tokens of a text
Tokens(text) == { text[i] : i \in 1..Len(text) }
\* the model put prose or a fence marker before the header marker
HasPreamble(response) ==
    \E i \in 1..Len(response) :
        /\ response[i] = HeaderMarker
        /\ \E j \in 1..(i - 1) : response[j] \in {Preamble, Fence}

\* C20: when the text of the model has prose or fence markers before the
\* header marker, the text reconstruct_resume returns begins at the header
\* marker, and holds neither the fences nor the preamble
C20_PreambleDiscarded ==
    (Rewritten /\ HasPreamble(st.response)) =>
        /\ st.result.returned # <<>>
        /\ Head(st.result.returned) = HeaderMarker
        /\ Tokens(st.result.returned) \cap {Preamble, Fence, TextTag} = {}

(***************************************************************************)
(* Properties of the validation                                            *)
(***************************************************************************)
\* validate_reconstruction has returned
Validated == st.stage = "validate_reconstruction" /\ st.pc = "done"
\* two characters are the same letter, whatever the case
CasePairs ==
    { <<"A", "a">>, <<"D", "d">>, <<"X", "x">>, <<"S", "s">>, <<"K", "k">>,
      <<"I", "i">>, <<"L", "l">> }
SameLetter(a, b) == a = b \/ <<a, b>> \in CasePairs \/ <<b, a>> \in CasePairs
\* the text holds the string sub, compared without regard to case
ContainsIgnoringCase(text, sub) ==
    \E i \in 0..(Len(text) - Len(sub)) :
        \A k \in 1..Len(sub) : SameLetter(text[i + k], sub[k])
SkillsWord == <<"s", "k", "i", "l", "l", "s">>

\* C21: for a resume with a name and an email, a text that holds both,
\* whatever the case, and the marker of the skills section is valid and has
\* no warning
C21_CompleteTextIsValid ==
    (/\ Validated
     /\ st.original.name # <<>> /\ st.original.email # <<>>
     /\ ContainsIgnoringCase(st.response, st.original.name)
     /\ ContainsIgnoringCase(st.response, st.original.email)
     /\ ContainsIgnoringCase(st.response, SkillsWord)) =>
        st.result.returned.valid /\ st.result.returned.warnings = <<>>

\* the text spells the name and the email in the other case
C21_Witness ==
    /\ Validated
    /\ st.original.name = <<"A", "d", "a">> /\ st.original.email = <<"a", "@", "x">>
    /\ st.response = <<"A", "D", "A", " ", "A", "@", "X", " ", "S", "k", "i", "l", "l", "s">>
    /\ st.result.returned.valid /\ st.result.returned.warnings = <<>>

\* the checks of the validation that fail for the resume and the text
FailedChecks(original, text) ==
    { w \in {NameWarning, EmailWarning, SkillsWarning} :
         \/ w = NameWarning /\ ~ContainsIgnoringCase(text, original.name)
         \/ w = EmailWarning /\ ~ContainsIgnoringCase(text, original.email)
         \/ w = SkillsWarning /\ ~ContainsIgnoringCase(text, SkillsWord) }

\* C22: a text that lacks the email gets the warning about the email and is
\* not valid; the warnings are those of the checks that failed, and the text
\* is not valid exactly when there is one
C22_MissingEmailWarns ==
    Validated =>
        LET v == st.result.returned
            given == { v.warnings[i] : i \in 1..Len(v.warnings) }
        IN  /\ ~ContainsIgnoringCase(st.response, st.original.email) =>
                  EmailWarning \in given /\ ~v.valid
            /\ given = FailedChecks(st.original, st.response)
            /\ Len(v.warnings) = Cardinality(given)
            /\ ~v.valid <=> given # {}

\* the text has the name and the skills heading and only half of the email
C22_Witness ==
    /\ Validated
    /\ st.original.email = <<"a", "@", "x">>
    /\ st.response = <<"a", "d", "a", " ", "a", "@", " ", "S", "K", "I", "L", "L", "S">>
    /\ st.result.returned.warnings = <<EmailWarning>>
    /\ ~st.result.returned.valid

\* a reconstruction handler has called validate_reconstruction and answers
ValidatedAnswer == lp.pc = "respond" /\ req.kind \in ReconKinds /\ lp.validation # None
\* the text the response delivers
Delivered ==
    IF req.kind = "preview" THEN lp.resp.reconstructed_text ELSE lp.resp.document

\* C23: whatever validate_reconstruction returns, the reconstruction
\* endpoint answers with the document or the preview of a text that
\* reconstruct_resume_fast returned, and the response carries the
\* validation with its warnings
C23_WarningsSurfacedNeverBlock ==
    ValidatedAnswer =>
        /\ lp.resp.status = 200
        /\ Delivered \in ReconstructedTexts(lp.parsed)
        /\ "validation" \in DOMAIN lp.resp
        /\ lp.resp.validation = lp.validation

(***************************************************************************)
(* Properties of the endpoints                                             *)
(***************************************************************************)
\* the upload of the request has a type tag that is neither pdf nor docx
BadType == req # NoReq /\ req.ftype \notin {"pdf", "docx"}
\* the handler went on to extract the text: the analysis always does, a
\* reconstruction does after all its lookups missed
Extracts ==
    \/ req.kind = "analyze"
    \/ /\ req.kind \in ReconKinds
       /\ \E i \in DOMAIN lp.lookups : lp.lookups[i].stage = "auto"
       /\ \A i \in DOMAIN lp.lookups : lp.lookups[i].ret = None
\* the extracted text is empty
EmptyText ==
    /\ req # NoReq /\ req.ftype \in {"pdf", "docx"} /\ Extracts
    /\ LET x == extract_text(req.file, req.ftype)
       IN  "text" \in DOMAIN x /\ strip(x.text) = ""
\* the response of the handler to an input error, with its reason
InputErrorResponse ==
    IF BadType THEN HTTPException(400, "Unsupported file type. Use PDF or DOCX.")
    ELSE HTTPException(400, "Could not extract text from file.")
\* the request has made no model call and submitted no task
FailedFast ==
    /\ lp.resp = InputErrorResponse
    /\ lp.ai_calls = 0 /\ ~lp.parse_called /\ lp.pipeline = <<>>
    /\ bg = "none"

\* C24 as stated: a request whose upload has an unsupported type, or an
\* empty text on the path that extracts it, fails with its reason before any
\* model call, submits no task, and leaves the cache as it was
C24_InputErrorsFailFast ==
    (lp.pc = "respond" /\ (BadType \/ EmptyText)) =>
        FailedFast /\ lp.evicted = <<>>

\* C24: such a request fails with its reason before any model call and
\* submits no task; it stores nothing in the cache, and what it removes are
\* entries under ids it looked up, each deleted by the get_session that
\* found the entry expired and returned None
C24_InputErrorsFailFastButEvict ==
    (lp.pc = "respond" /\ (BadType \/ EmptyText)) =>
        /\ FailedFast
        /\ BadType => lp.evicted = <<>>
        /\ \A k \in DOMAIN lp.evicted :
              \E i \in DOMAIN lp.lookups :
                  lp.lookups[i].id = lp.evicted[k] /\ lp.lookups[i].ret = None

\* a preview request with a blank upload failed after its lookup of the
\* supplied id had removed an expired entry
C24_Witness ==
    /\ lp.pc = "respond" /\ EmptyText /\ req.kind = "preview"
    /\ lp.resp = HTTPException(400, "Could not extract text from file.")
    /\ lp.evicted = <<req.sid>> /\ lp.ai_calls = 0 /\ bg = "none"

(***************************************************************************)
(* Properties of the session id                                            *)
(***************************************************************************)
\* the ids the program has computed, each with the hash of the file and the
\* job description it was computed from: the id of the analysis response,
\* the ids derived by the reconstruction handlers, the ids of the
\* background tasks, and the keys of the cache
ComputedIds ==
    (IF req.kind = "analyze" /\ lp.session_id # ""
     THEN { [fh |-> _generate_file_hash(req.file), jd |-> req.jd, id |-> lp.session_id] }
     ELSE {})
    \cup { [fh |-> _generate_file_hash(req.file), jd |-> req.jd, id |-> lp.lookups[i].id] :
              i \in { i \in DOMAIN lp.lookups : lp.lookups[i].stage = "auto" } }
    \cup { [fh |-> _generate_file_hash(wk[w].task.file_bytes),
            jd |-> wk[w].task.job_description, id |-> wk[w].session_id] :
              w \in { w \in Workers : wk[w].task # NoTask } }
    \cup { [fh |-> cache[k].file_hash, jd |-> cache[k].job_description, id |-> k] :
              k \in DOMAIN cache }

StoresUnder(w, k) == wk[w].pc = "store" /\ wk[w].session_id = k

C27_OnlyExpiredEntriesRemoved ==
    [][ \A k \in DOMAIN cache :
           k \notin DOMAIN cache' => now - cache[k].created_at > CACHE_TTL
      ]_vars

\* the resumes that parse_resume can return for the upload behind the id
ResumesBehind(id) ==
    UNION { ParsedResumes(extract_text(f, "pdf").text) :
               f \in { f \in {"cvA", "cvB"} : \E jd \in JobDescriptions :
                                                 generate_session_id(f, jd) = id } }

\* C28: the id of the analysis response is generate_session_id of the
\* upload and the job description, the background task stores under the
\* same id, and from the time that store has written the entry until
\* CACHE_TTL has passed the cache holds under the id a live entry with the
\* resume parsed from the upload, so that get_session hits
C28_ReturnedIdHitsWhileFresh ==
    /\ (lp.pc = "respond" /\ req.kind = "analyze" /\ lp.resp.status = 200) =>
          lp.resp.session_id = generate_session_id(req.file, req.jd)
    /\ \A w \in Workers : wk[w].pc = "store" =>
          wk[w].session_id =
              generate_session_id(wk[w].task.file_bytes, wk[w].task.job_description)
    /\ \A id \in issued :
          (lastStore[id] >= 0 /\ now - lastStore[id] <= CACHE_TTL) =>
              /\ id \in DOMAIN cache
              /\ Age(cache[id]) <= CACHE_TTL
              /\ cache[id].parsed_resume \in ResumesBehind(id)

(***************************************************************************)
(* Properties of the cache warming                                         *)
(***************************************************************************)
\* the request being handled has no task in the queue or in a pool thread
NoTaskOfRequest ==
    /\ bg = "none"
    /\ \A i \in DOMAIN queue : ~queue[i].cur
    /\ \A w \in Workers : wk[w].task # NoTask => ~wk[w].task.cur
\* the analysis handler answers with an error
AnalysisFailed == lp.pc = "respond" /\ req.kind = "analyze" /\ lp.resp.status # 200

\* C29: an analysis that fails has submitted no background task, the steps
\* of an analysis request leave the cache as it is, and an entry is written
\* to the cache only by the store_session of a background task
C29_WarmingOnlyAfterSuccess ==
    [][ /\ AnalysisFailed => NoTaskOfRequest
        /\ (lp' # lp /\ req'.kind = "analyze") => cache' = cache
        /\ \A k \in DOMAIN cache' :
              (k \notin DOMAIN cache \/ cache'[k] # cache[k]) =>
                  /\ lp' = lp
                  /\ \E w \in Workers :
                        StoresUnder(w, k) /\ cache'[k] = store_session_entry(wk[w], now)
      ]_vars

\* an analysis failed at the gateway after an earlier one had warmed the cache
C29_Witness ==
    /\ AnalysisFailed /\ lp.resp = HTTPException(500, "provider error")
    /\ lp.ai_calls = 1 /\ NoTaskOfRequest
    /\ cache # EmptyDict

(***************************************************************************)
(* Properties of the lookup by a supplied session id                       *)
(***************************************************************************)
\* what get_session returned is a session
IsSession(value) == "parsed_resume" \in DOMAIN value
\* the lookup of the supplied session id gave a session
SidHit == lp.lookups # <<>> /\ lp.lookups[1].stage = "sid" /\ IsSession(lp.lookups[1].ret)
\* the handler went on with the session and nothing else
HitUsed ==
    SidHit =>
        /\ Len(lp.lookups) = 1
        /\ ~lp.parse_called
        /\ lp.pc = "respond" => lp.parsed = lp.lookups[1].ret.parsed_resume
\* the session was stored for another upload and another job description
ForeignSession(session) ==
    /\ session.file_hash # _generate_file_hash(req.file)
    /\ session.job_description # req.jd

\* C30: when get_session finds under the supplied session id an entry that
\* is live, the entry is returned whatever file and job description it was
\* stored with, the handler uses its parsed_resume, parse_resume is not
\* called and the id derived from the content is not looked up
C30_SuppliedIdHitIsUnchecked ==
    [][ /\ (lp.pc = "g_check" /\ lp.stage = "sid" /\ ~is_expired(now, lp.g_session)
                /\ lp' # lp) =>
              lp'.lookups = <<[stage |-> "sid", id |-> req.sid, ret |-> lp.g_session]>>
        /\ HitUsed'
      ]_vars

\* a preview answered from the session of another upload and job description
C30_Witness ==
    /\ lp.pc = "respond" /\ req.kind = "preview" /\ SidHit
    /\ ForeignSession(lp.lookups[1].ret)
    /\ lp.resp.status = 200
    /\ lp.parsed = lp.lookups[1].ret.parsed_resume
    /\ Len(lp.lookups) = 1 /\ ~lp.parse_called

====
